---- MODULE Spec2Model ----
(***************************************************************************)
(* CSV upload service: utils.process_csv, the table store and record       *)
(* access layer of database.py, and the request handlers of main.py.       *)
(*                                                                         *)
(* Text is a sequence of one-character strings, so that parsing and        *)
(* formatting are computed and not assumed.  The one PostgreSQL table      *)
(* "uploaded_data" is the variable db.  Requests are handled one at a      *)
(* time: a handler runs to its reply, the caller takes the reply, and the  *)
(* next request starts.  reply is the reply not yet taken; deleted is the  *)
(* history of the successful deletes since the table was last rebuilt;     *)
(* running says whether the server process is up.  The database outlives   *)
(* the process.                                                            *)
(*                                                                         *)
(* Spec is the service with its requests handled one after the other.      *)
(* SpecIngest is two server processes on the same database, each handling  *)
(* one upload, with the statements of the two ingests interleaved; ingest  *)
(* is the position of each of them.  (One process alone never interleaves  *)
(* two ingests: the handler does not yield between process_csv and its     *)
(* return.)  SpecPipeline is pipeline.py, one shell command per step;      *)
(* pipeline holds its position, its results and the commands run so far.   *)
(*                                                                         *)
(* The libraries behind the calls are modelled by what they do: pandas     *)
(* infers a dtype per column and skips blank lines, to_dict gives native   *)
(* Python values, the driver renders them as SQL literals, PostgreSQL      *)
(* casts a number to text when it is assigned to a VARCHAR column, and     *)
(* SQLAlchemy runs an INSERT once with defaults for an empty parameter     *)
(* list.                                                                   *)
(***************************************************************************)
EXTENDS Integers, Sequences, FiniteSets, TLC

VARIABLES db, reply, deleted, running, ingest, pipeline

vars == <<db, reply, deleted, running, ingest, pipeline>>

(* ---------------------------------------------------------------------- *)
(* Bounds of the model                                                     *)
(* ---------------------------------------------------------------------- *)

\* Most data rows in an uploaded file.
MaxRows == 2

(* ---------------------------------------------------------------------- *)
(* Text                                                                    *)
(* ---------------------------------------------------------------------- *)

Digits == <<"0", "1", "2", "3", "4", "5", "6", "7", "8", "9">>

IsDigit(c) == \E i \in DOMAIN Digits : Digits[i] = c

DigitVal(c) == (CHOOSE i \in DOMAIN Digits : Digits[i] = c) - 1

\* SQL NULL and Python None; neither is a text.
NULL == <<"<NULL>">>
None == <<"<None>">>

\* int(text) for a run of decimal digits.
RECURSIVE ParseInt(_)
ParseInt(t) ==
    IF t = <<>> THEN 0
    ELSE 10 * ParseInt(SubSeq(t, 1, Len(t) - 1)) + DigitVal(t[Len(t)])

\* str(n) for n >= 0.
RECURSIVE IntToStr(_)
IntToStr(n) ==
    IF n < 10 THEN <<Digits[n + 1]>>
    ELSE IntToStr(n \div 10) \o <<Digits[(n % 10) + 1]>>

IsIntText(t) == t # <<>> /\ \A i \in DOMAIN t : IsDigit(t[i])

DotAt(t) == {i \in DOMAIN t : t[i] = "."}

\* digits "." digits, the decimal texts of the model's alphabet
IsFloatText(t) ==
    /\ Cardinality(DotAt(t)) = 1
    /\ LET d == CHOOSE i \in DotAt(t) : TRUE
       IN /\ IsIntText(SubSeq(t, 1, d - 1))
          /\ IsIntText(SubSeq(t, d + 1, Len(t)))

RECURSIVE TrimTrailingZeros(_)
TrimTrailingZeros(t) ==
    IF t # <<>> /\ t[Len(t)] = "0"
    THEN TrimTrailingZeros(SubSeq(t, 1, Len(t) - 1))
    ELSE t

(* ---------------------------------------------------------------------- *)
(* utils.process_csv                                                       *)
(* ---------------------------------------------------------------------- *)

\* A header cell as written in the file: the name and the blanks around it.
RawName(name, lead, trail) == [core |-> name, lead |-> lead, trail |-> trail]

\* str.strip() of a header cell
StripName(h) == h.core

NaN == [kind |-> "nan"]

\* The value of a numeric text as a float: integer part and the fraction
\* digits without trailing zeros.
FloatCell(t) ==
    IF IsIntText(t)
    THEN [kind |-> "float", ip |-> ParseInt(t), frac |-> <<>>]
    ELSE LET d == CHOOSE i \in DotAt(t) : TRUE
         IN [kind |-> "float",
             ip |-> ParseInt(SubSeq(t, 1, d - 1)),
             frac |-> TrimTrailingZeros(SubSeq(t, d + 1, Len(t)))]

\* pandas.read_csv skips blank lines; in a one-column file a row whose
\* only field is empty is a blank line.
RECURSIVE SkipBlankLines(_, _)
SkipBlankLines(ncols, rows) ==
    IF rows = <<>> THEN <<>>
    ELSE IF ncols = 1 /\ Head(rows)[1] = <<>>
         THEN SkipBlankLines(ncols, Tail(rows))
         ELSE <<Head(rows)>> \o SkipBlankLines(ncols, Tail(rows))

\* The dtype pandas.read_csv infers for one column from all of its fields
\* (empty field = missing): int64 when every field is an integer, float64
\* when every present field is numeric, object otherwise.
InferDtype(texts) ==
    LET present == {i \in DOMAIN texts : texts[i] # <<>>}
    IN IF texts = <<>> THEN "object"
       ELSE IF present = DOMAIN texts /\ \A i \in present : IsIntText(texts[i])
            THEN "int64"
       ELSE IF \A i \in present : IsIntText(texts[i]) \/ IsFloatText(texts[i])
            THEN "float64"
       ELSE "object"

ParseCell(dtype, t) ==
    IF t = <<>> THEN NaN
    ELSE IF dtype = "int64" THEN [kind |-> "int", n |-> ParseInt(t)]
    ELSE IF dtype = "float64" THEN FloatCell(t)
    ELSE [kind |-> "str", s |-> t]

\* pd.read_csv(StringIO(csv_string)): a frame with the raw header names as
\* columns and typed cells.
read_csv(csv) ==
    LET n == Len(csv.header)
        lines == SkipBlankLines(n, csv.rows)
        dtype == [c \in 1..n |-> InferDtype([r \in DOMAIN lines |-> lines[r][c]])]
    IN [columns |-> csv.header,
        rows |-> [r \in DOMAIN lines |->
                     [c \in 1..n |-> ParseCell(dtype[c], lines[r][c])]]]

IsComplete(row) == \A c \in DOMAIN row : row[c] # NaN

\* DataFrame.dropna(): the rows without a missing cell, in order.
RECURSIVE dropna_rows(_)
dropna_rows(rows) ==
    IF rows = <<>> THEN <<>>
    ELSE IF IsComplete(Head(rows))
         THEN <<Head(rows)>> \o dropna_rows(Tail(rows))
         ELSE dropna_rows(Tail(rows))

\* The tokenizer of pandas.read_csv raises ParserError on a data line,
\* after the first one, with more fields than the header has.
TooManyFields(csv) ==
    \E k \in 2..Len(csv.rows) : Len(csv.rows[k]) > Len(csv.header)

\* process_csv: raises (ok = FALSE) on undecodable bytes, on content
\* without a header and on a line with too many fields; otherwise the
\* frame after dropna and column strip.
process_csv(csv) ==
    IF ~csv.decodable \/ csv.header = <<>> \/ TooManyFields(csv)
    THEN [ok |-> FALSE, columns |-> <<>>, rows |-> <<>>]
    ELSE LET df == read_csv(csv)
         IN [ok |-> TRUE,
             columns |-> [c \in DOMAIN df.columns |-> StripName(df.columns[c])],
             rows |-> dropna_rows(df.rows)]

\* len(df)
DfLen(df) == Len(df.rows)

(* ---------------------------------------------------------------------- *)
(* database.py: the table store                                            *)
(* ---------------------------------------------------------------------- *)

\* The database before the first upload: no table "uploaded_data".
\* rows maps each stored id to its column values; seq is the last value
\* handed out by the id column's sequence.
NoTable == [exists |-> FALSE, columns |-> <<>>, rows |-> <<>>, seq |-> 0]

Range(f) == {f[i] : i \in DOMAIN f}

Ids(d) == DOMAIN d.rows

\* inspect(engine).has_table(TABLE_NAME)
has_table(d) == d.exists

\* What a DataFrame cell becomes in a String column: the driver renders a
\* Python int as 7, a float by repr() as 7.0, and PostgreSQL casts the
\* number to text on assignment; a str is stored as it is.
AdaptCell(cell) ==
    IF cell.kind = "int" THEN IntToStr(cell.n)
    ELSE IF cell.kind = "float"
         THEN IntToStr(cell.ip) \o <<".">>
              \o (IF cell.frac = <<>> THEN <<"0">> ELSE cell.frac)
    ELSE cell.s

\* df.to_dict('records'): one mapping column name -> value per row.
to_dict_records(df) ==
    [r \in DOMAIN df.rows |->
        [name \in Range(df.columns) |->
            LET c == CHOOSE i \in DOMAIN df.columns : df.columns[i] = name
            IN AdaptCell(df.rows[r][c])]]

\* metadata.drop_all: DROP TABLE, with the sequence its id column owns.
DropTable(d) ==
    [d EXCEPT !.exists = FALSE, !.columns = <<>>, !.rows = <<>>, !.seq = 0]

\* Where the startup of the process may fail.
StartupFails == {"none", "connect", "drop"}

\* Mutant: the startup only checks the connection.
initialize_db_keeps_table(d, fail) ==
    IF fail # "none" THEN [raised |-> TRUE, db |-> d]
    ELSE [raised |-> FALSE, db |-> d]

\* initialize_db: SELECT 1, then DROP TABLE IF EXISTS uploaded_data in a
\* transaction; an exception of either is printed and re-raised.
initialize_db(d, fail) ==
    IF fail # "none" THEN [raised |-> TRUE, db |-> d]
    ELSE [raised |-> FALSE, db |-> DropTable(d)]

\* metadata.create_all (checkfirst): nothing when the table is there;
\* otherwise id SERIAL PRIMARY KEY and one VARCHAR column per DataFrame
\* column, in order, with a fresh sequence.
CreateTable(d, columns) ==
    IF has_table(d) THEN d
    ELSE [exists |-> TRUE, columns |-> columns, rows |-> <<>>, seq |-> 0]

\* Mutant: the sequence starts one too low.
NextId_from_zero(d, k) == d.seq + k - 1

\* The id the sequence gives to the k-th row inserted by one statement.
NextId(d, k) == d.seq + k

\* conn.execute(table.insert(), records) inside engine.begin(): one
\* executemany over the records in list order.  With an empty list
\* SQLAlchemy runs the statement once without parameters, i.e.
\* INSERT ... DEFAULT VALUES: one row, every data column NULL.
BulkInsert(d, records) ==
    LET recs == IF records = <<>>
                THEN <<[name \in Range(d.columns) |-> NULL]>>
                ELSE records
        n == Len(recs)
        new == {NextId(d, k) : k \in 1..n}
    IN [d EXCEPT
          !.rows = [i \in Ids(d) \cup new |->
                       IF i \in Ids(d) THEN d.rows[i]
                       ELSE recs[CHOOSE k \in 1..n : NextId(d, k) = i]],
          !.seq = d.seq + n]

\* Where the storage engine may fail during one ingest.
FailPoints == {"none", "drop", "create", "insert"}

\* create_table_from_df: drop, then create; each is its own transaction.
create_table_from_df(d, df, failAt) ==
    IF failAt = "drop" THEN [raised |-> TRUE, db |-> d]
    ELSE IF failAt = "create" THEN [raised |-> TRUE, db |-> DropTable(d)]
    ELSE [raised |-> FALSE, db |-> CreateTable(DropTable(d), df.columns)]

\* Mutant: the bulk insert is not one transaction; a failure leaves the
\* first row in the table.
insert_csv_data_not_atomic(d, df, failAt) ==
    LET made == create_table_from_df(d, df, failAt)
        records == to_dict_records(df)
    IN IF made.raised THEN made
       ELSE IF failAt = "insert"
            THEN [raised |-> TRUE,
                  db |-> IF records = <<>> THEN made.db
                         ELSE BulkInsert(made.db, <<records[1]>>)]
       ELSE [raised |-> FALSE, db |-> BulkInsert(made.db, records)]

\* insert_csv_data: rebuild the table, then bulk insert in one
\* transaction, which a failure rolls back; every exception is re-raised.
insert_csv_data(d, df, failAt) ==
    LET made == create_table_from_df(d, df, failAt)
    IN IF made.raised THEN made
       ELSE IF failAt = "insert" THEN [raised |-> TRUE, db |-> made.db]
       ELSE [raised |-> FALSE, db |-> BulkInsert(made.db, to_dict_records(df))]

(* ---------------------------------------------------------------------- *)
(* database.py: the record access layer                                    *)
(* ---------------------------------------------------------------------- *)

\* One row of a SELECT * as a dict: the id and the data columns.
RowDict(d, i) == [id |-> i, vals |-> d.rows[i]]

NoRecord == [found |-> FALSE]

\* The column query parameter when it is not given (Python None)
NoColumn == "<None>"

\* Python truthiness of the optional column name and of the optional value
ColumnGiven(c) == c # NoColumn /\ c # ""
ValueGiven(v) == v # None /\ v # <<>>

\* fetch_records: [] when the table is missing or the query raises (a
\* storage failure, or a WHERE on a column the table does not have);
\* the filter is applied only when both column and value are truthy.
\* The result is the set of rows: SELECT has no ORDER BY.
fetch_records(d, column, value, fail) ==
    IF fail \/ ~has_table(d) THEN {}
    ELSE IF ColumnGiven(column) /\ ValueGiven(value)
         THEN IF column \notin Range(d.columns) THEN {}
              ELSE {RowDict(d, i) : i \in {j \in Ids(d) : d.rows[j][column] = value}}
    ELSE {RowDict(d, i) : i \in Ids(d)}

\* Mutant: the WHERE clause is missing, every row is hit.
WhereId_every_row(d, record_id) == Ids(d)

\* WHERE id = :id
WhereId(d, record_id) == {i \in Ids(d) : i = record_id}

\* {**updates, 'id': record_id}: the bind parameters of the UPDATE
UpdateParams(record_id, updates) ==
    [k \in DOMAIN updates \cup {"id"} |->
        IF k = "id" THEN record_id ELSE updates[k]]

\* UPDATE uploaded_data SET k = :k, ... WHERE id = :id in a transaction.
\* The statement raises, and changes nothing, without a SET item or with
\* a SET item naming no column of the table.
ExecuteUpdate(d, record_id, updates) ==
    IF DOMAIN updates = {}
       \/ ~(DOMAIN updates \subseteq Range(d.columns) \cup {"id"})
    THEN [raised |-> TRUE, rowcount |-> 0, db |-> d]
    ELSE LET params == UpdateParams(record_id, updates)
             hit == WhereId(d, params["id"])
             newid(i) == IF "id" \in DOMAIN updates THEN params["id"] ELSE i
             newvals(i) == [c \in Range(d.columns) |->
                              IF c \in DOMAIN updates THEN params[c]
                              ELSE d.rows[i][c]]
             keep == Ids(d) \ hit
         IN [raised |-> FALSE, rowcount |-> Cardinality(hit),
             db |-> [d EXCEPT !.rows =
                       [i \in keep \cup {newid(j) : j \in hit} |->
                           IF i \in keep THEN d.rows[i]
                           ELSE newvals(CHOOSE j \in hit : newid(j) = i)]]]

\* Mutant: the statement runs outside the try block and the transaction,
\* so a failure of the storage call is not turned into False.
update_record_unguarded(d, record_id, updates, fail) ==
    LET x == ExecuteUpdate(d, record_id, updates)
    IN [ret |-> x.rowcount > 0, db |-> x.db]

\* update_record: False when the table is missing or anything raises
\* (the storage failure fail, or the statement); otherwise rowcount > 0.
update_record(d, record_id, updates, fail) ==
    IF fail \/ ~has_table(d) THEN [ret |-> FALSE, db |-> d]
    ELSE LET x == ExecuteUpdate(d, record_id, updates)
         IN IF x.raised THEN [ret |-> FALSE, db |-> d]
            ELSE [ret |-> x.rowcount > 0, db |-> x.db]

\* Mutant: the DELETE is not committed; its rowcount is reported.
ExecuteDelete_uncommitted(d, record_id) ==
    [rowcount |-> Cardinality(WhereId(d, record_id)), db |-> d]

\* DELETE FROM uploaded_data WHERE id = :id in a transaction
ExecuteDelete(d, record_id) ==
    LET hit == WhereId(d, record_id)
    IN [rowcount |-> Cardinality(hit),
        db |-> [d EXCEPT !.rows = [i \in Ids(d) \ hit |-> d.rows[i]]]]

\* Mutant: rowcount >= 0 instead of rowcount > 0.
delete_record_always_true(d, record_id, fail) ==
    IF fail \/ ~has_table(d) THEN [ret |-> FALSE, db |-> d]
    ELSE LET x == ExecuteDelete(d, record_id)
         IN [ret |-> x.rowcount >= 0, db |-> x.db]

\* delete_record: False when the table is missing or the storage call
\* raises; otherwise rowcount > 0.
delete_record(d, record_id, fail) ==
    IF fail \/ ~has_table(d) THEN [ret |-> FALSE, db |-> d]
    ELSE LET x == ExecuteDelete(d, record_id)
         IN [ret |-> x.rowcount > 0, db |-> x.db]

\* get_record_by_id: None when the table is missing, the query raises or
\* no row has the id; otherwise the row as a dict.
get_record_by_id(d, record_id, fail) ==
    IF fail \/ ~has_table(d) THEN NoRecord
    ELSE IF record_id \in Ids(d)
         THEN [found |-> TRUE, id |-> record_id, vals |-> d.rows[record_id]]
    ELSE NoRecord

(* ---------------------------------------------------------------------- *)
(* Inputs                                                                  *)
(* ---------------------------------------------------------------------- *)

SeqsUpTo(S, n) == UNION {[1..k -> S] : k \in 0..n}

\* Header rows: "name" and "name, age" (the second name with a blank
\* before it).  A source column named id is outside the model.
Headers ==
    {<<RawName("name", 0, 0)>>,
     <<RawName("name", 0, 0), RawName("age", 1, 0)>>}

\* Bytes that are not UTF-8, and an empty body.
BadUtf8 == [decodable |-> FALSE, header |-> <<>>, rows |-> <<>>]
EmptyContent == [decodable |-> TRUE, header |-> <<>>, rows |-> <<>>]

\* Fields of the uploaded files: under name empty, "a" or "007", under
\* age empty or "1.0".
FieldTexts(name) ==
    IF name = "name" THEN {<<>>, <<"a">>, <<"0", "0", "7">>}
    ELSE {<<>>, <<"1", ".", "0">>}

\* The data rows that fit the header h
RowsOf(h) ==
    {r \in [DOMAIN h -> UNION {FieldTexts(h[c].core) : c \in DOMAIN h}] :
        \A c \in DOMAIN h : r[c] \in FieldTexts(h[c].core)}

\* The files with a header of hs and at most n data rows.
CsvOf(hs, n) ==
    UNION {{[decodable |-> TRUE, header |-> h, rows |-> rs] :
               rs \in SeqsUpTo(RowsOf(h), n)} : h \in hs}

\* A file that cannot be parsed: its second data line has two fields
\* under a header of one.
Ragged ==
    [decodable |-> TRUE, header |-> <<RawName("name", 0, 0)>>,
     rows |-> <<<<<<"a">>>>, <<<<"a">>, <<"a">>>>>>]

CsvInputs == CsvOf(Headers, MaxRows) \cup {BadUtf8, EmptyContent, Ragged}

\* Record ids a request may name: every id an upload can assign, and one more.
RecordIds == 1..(MaxRows + 1)

\* Bodies of an update: the empty body, existing columns, both columns,
\* a column the table never has, and the id column.
UpdateKeySets ==
    {{}, {"name"}, {"age"}, {"name", "age"}, {"zip"}, {"id"}, {"id", "name"}}

UpdateInputs == UNION {[K -> {<<"b">>}] : K \in UpdateKeySets}

\* Query parameters of GET /records
FilterColumns == {NoColumn, "name", "age", "zip"}
FilterValues == {None, <<>>, <<"a">>, <<"A">>, <<"b">>}

(* ---------------------------------------------------------------------- *)
(* main.py: the request handlers, and direct calls of database.py          *)
(* ---------------------------------------------------------------------- *)

NoReply == [op |-> "none"]

\* The server processes of SpecIngest
Workers == {"A", "B"}

\* An upload that has not begun: no content read, no status.
NoIngest ==
    [pc |-> "idle", csv |-> EmptyContent, status |-> 0,
     alone |-> TRUE, later |-> FALSE]

\* The pipeline before it is started (pipeline.py is not run).
NotRun == [pc |-> "off"]

\* The process has started on a database without the table.
Init ==
    /\ db = NoTable
    /\ reply = NoReply
    /\ deleted = {}
    /\ running = TRUE
    /\ ingest = [u \in Workers |-> NoIngest]
    /\ pipeline = NotRun

\* lifespan: initialize_db() before the first request is served; when it
\* raises, the application does not start.
lifespan(d, fail) ==
    LET r == initialize_db(d, fail)
    IN [started |-> ~r.raised, db |-> r.db]

\* A new process starts on the database the last one left.
Startup(fail) ==
    /\ ~running
    /\ reply = NoReply
    /\ LET r == lifespan(db, fail)
       IN /\ db' = r.db
          /\ running' = r.started
          /\ reply' = [op |-> "startup", fail |-> fail, raised |-> ~r.started]
    /\ UNCHANGED <<deleted, ingest, pipeline>>

\* The process ends; the database stays.
Stop ==
    /\ running
    /\ reply = NoReply
    /\ running' = FALSE
    /\ UNCHANGED <<db, reply, deleted, ingest, pipeline>>

\* df = process_csv(content), for every file that is uploaded
ParsedFiles == [csv \in CsvInputs |-> process_csv(csv)]

\* Mutant: the table is rebuilt before the content is parsed.
upload_csv_drop_first(d, csv, failAt) ==
    LET df == ParsedFiles[csv]
    IN IF ~df.ok
       THEN [status |-> 500, count |-> 0, db |-> DropTable(d), parsed |-> FALSE]
       ELSE LET res == insert_csv_data(d, df, failAt)
            IN [status |-> IF res.raised THEN 500 ELSE 200,
                count |-> DfLen(df), db |-> res.db, parsed |-> TRUE]

\* upload_csv's reply: 200 with len(df), 500 when process_csv or
\* insert_csv_data raised.  parsed: process_csv returned a frame.
upload_csv(d, csv, failAt) ==
    LET df == ParsedFiles[csv]
    IN IF ~df.ok
       THEN [status |-> 500, count |-> 0, db |-> d, parsed |-> FALSE]
       ELSE LET res == insert_csv_data(d, df, failAt)
            IN [status |-> IF res.raised THEN 500 ELSE 200,
                count |-> DfLen(df), db |-> res.db, parsed |-> TRUE]

\* POST /upload/.  failAt is the step of the ingest at which the storage
\* engine fails; a file that process_csv rejects never reaches the store.
Upload(csv, failAt) ==
    /\ running
    /\ reply = NoReply
    /\ LET r == upload_csv(db, csv, failAt)
           dropped == r.parsed /\ failAt # "drop"
       IN /\ r.parsed \/ failAt = "none"
          /\ db' = r.db
          /\ reply' = [op |-> "upload", csv |-> csv, failAt |-> failAt,
                       status |-> r.status, count |-> r.count]
          /\ deleted' = IF dropped THEN {} ELSE deleted
    /\ UNCHANGED <<running, ingest, pipeline>>

\* GET /records/?column=&value=
GetRecords(column, value, fail) ==
    /\ running
    /\ reply = NoReply
    /\ reply' = [op |-> "list", column |-> column, value |-> value,
                 fail |-> fail, status |-> 200,
                 records |-> fetch_records(db, column, value, fail)]
    /\ UNCHANGED <<db, deleted, running, ingest, pipeline>>

\* GET /records/{record_id}: 404 when get_record_by_id returns None
GetRecord(id, fail) ==
    /\ running
    /\ reply = NoReply
    /\ LET rec == get_record_by_id(db, id, fail)
       IN reply' = [op |-> "get", id |-> id, fail |-> fail, ret |-> rec,
                    status |-> IF rec = NoRecord THEN 404 ELSE 200]
    /\ UNCHANGED <<db, deleted, running, ingest, pipeline>>

\* Mutant: the record is looked up before the body is checked.
update_record_endpoint_lookup_first(d, id, updates, fail) ==
    IF get_record_by_id(d, id, fail = "get") = NoRecord
    THEN [status |-> 404, db |-> d]
    ELSE IF DOMAIN updates = {} THEN [status |-> 400, db |-> d]
    ELSE LET u == update_record(d, id, updates, fail = "write")
         IN [status |-> IF u.ret THEN 200 ELSE 500, db |-> u.db]

\* update_record_endpoint's reply and effect; fail names the database
\* call that raises, if any.
update_record_endpoint(d, id, updates, fail) ==
    IF DOMAIN updates = {} THEN [status |-> 400, db |-> d]
    ELSE IF get_record_by_id(d, id, fail = "get") = NoRecord
         THEN [status |-> 404, db |-> d]
    ELSE LET u == update_record(d, id, updates, fail = "write")
         IN [status |-> IF u.ret THEN 200 ELSE 500, db |-> u.db]

\* PUT /records/{record_id}
PutRecord(id, updates, fail) ==
    /\ running
    /\ reply = NoReply
    /\ LET r == update_record_endpoint(db, id, updates, fail)
       IN /\ db' = r.db
          /\ reply' = [op |-> "put", id |-> id, updates |-> updates,
                       fail |-> fail, status |-> r.status]
    /\ UNCHANGED <<deleted, running, ingest, pipeline>>

\* Mutant: the record is not looked up before the delete.
delete_record_endpoint_no_lookup(d, id, fail) ==
    LET u == delete_record(d, id, fail = "write")
    IN [status |-> IF u.ret THEN 200 ELSE 500, db |-> u.db]

\* delete_record_endpoint's reply and effect
delete_record_endpoint(d, id, fail) ==
    IF get_record_by_id(d, id, fail = "get") = NoRecord
    THEN [status |-> 404, db |-> d]
    ELSE LET u == delete_record(d, id, fail = "write")
         IN [status |-> IF u.ret THEN 200 ELSE 500, db |-> u.db]

\* DELETE /records/{record_id}
DeleteRecord(id, fail) ==
    /\ running
    /\ reply = NoReply
    /\ LET r == delete_record_endpoint(db, id, fail)
       IN /\ db' = r.db
          /\ reply' = [op |-> "delete", id |-> id, fail |-> fail,
                       status |-> r.status]
          /\ deleted' = IF r.status = 200 THEN deleted \cup {id} ELSE deleted
    /\ UNCHANGED <<running, ingest, pipeline>>

\* database.update_record called directly
CallUpdate(id, updates, fail) ==
    /\ running
    /\ reply = NoReply
    /\ LET u == update_record(db, id, updates, fail)
       IN /\ db' = u.db
          /\ reply' = [op |-> "update_record", id |-> id, updates |-> updates,
                       fail |-> fail, ret |-> u.ret]
    /\ UNCHANGED <<deleted, running, ingest, pipeline>>

\* database.delete_record called directly
CallDelete(id, fail) ==
    /\ running
    /\ reply = NoReply
    /\ LET u == delete_record(db, id, fail)
       IN /\ db' = u.db
          /\ reply' = [op |-> "delete_record", id |-> id, fail |-> fail,
                       ret |-> u.ret]
          /\ deleted' = IF u.ret THEN deleted \cup {id} ELSE deleted
    /\ UNCHANGED <<running, ingest, pipeline>>

\* The caller takes the reply.
TakeReply ==
    /\ reply # NoReply
    /\ reply' = NoReply
    /\ UNCHANGED <<db, deleted, running, ingest, pipeline>>

EndpointFails == {"none", "get", "write"}

Next ==
    \/ \E csv \in CsvInputs, f \in FailPoints : Upload(csv, f)
    \/ \E c \in FilterColumns, v \in FilterValues, f \in BOOLEAN : GetRecords(c, v, f)
    \/ \E i \in RecordIds, f \in BOOLEAN : GetRecord(i, f)
    \/ \E i \in RecordIds, u \in UpdateInputs, f \in EndpointFails : PutRecord(i, u, f)
    \/ \E i \in RecordIds, f \in EndpointFails : DeleteRecord(i, f)
    \/ \E i \in RecordIds, u \in UpdateInputs, f \in BOOLEAN : CallUpdate(i, u, f)
    \/ \E i \in RecordIds, f \in BOOLEAN : CallDelete(i, f)
    \/ TakeReply
    \/ Stop
    \/ \E f \in StartupFails : Startup(f)

Spec == Init /\ [][Next]_vars

(* ---------------------------------------------------------------------- *)
(* Two uploads at the same time: upload_csv, insert_csv_data and           *)
(* create_table_from_df statement by statement                             *)
(* ---------------------------------------------------------------------- *)

\* The text of every field in the file a worker uploads
WorkerText(u) == IF u = "A" THEN <<"a">> ELSE <<"b">>

\* The file of worker u with k data rows under the header "name"
IngestFile(u, k) ==
    [decodable |-> TRUE, header |-> <<RawName("name", 0, 0)>>,
     rows |-> [i \in 1..k |-> <<WorkerText(u)>>]]

Other(u) == CHOOSE w \in Workers : w # u

InProgress(g) == g.pc \notin {"idle", "done"}

\* The statement of worker u raised: insert_csv_data re-raises, upload_csv
\* answers 500.
Raise(u) == [ingest EXCEPT ![u].pc = "done", ![u].status = 500]

Goto(u, pc) == [ingest EXCEPT ![u].pc = pc]

\* upload_csv up to the call of insert_csv_data; alone and later record
\* whether the two uploads overlap and which one came second.
IngestBegin(u, k) ==
    /\ ingest[u].pc = "idle"
    /\ ingest' =
          [w \in Workers |->
              IF w = u
              THEN [pc |-> "drop_check", csv |-> IngestFile(u, k), status |-> 0,
                    alone |-> ~InProgress(ingest[Other(u)]),
                    later |-> ingest[Other(u)].pc = "done"]
              ELSE [ingest[w] EXCEPT !.alone = @ /\ ~InProgress(ingest[w])]]
    /\ UNCHANGED <<db, reply, deleted, running, pipeline>>

\* df = process_csv(content) of an upload in progress
ParsedIngest(csv) == process_csv(csv)

\* drop_all, checkfirst: is the table there?
DropCheck(u) ==
    /\ ingest[u].pc = "drop_check"
    /\ ingest' = Goto(u, IF has_table(db) THEN "drop" ELSE "create_check")
    /\ UNCHANGED <<db, reply, deleted, running, pipeline>>

\* drop_all: DROP TABLE uploaded_data; an error when it is gone by now.
Drop(u) ==
    /\ ingest[u].pc = "drop"
    /\ IF has_table(db)
       THEN db' = DropTable(db) /\ ingest' = Goto(u, "create_check")
       ELSE db' = db /\ ingest' = Raise(u)
    /\ UNCHANGED <<reply, deleted, running, pipeline>>

\* create_all, checkfirst: is the table there?
CreateCheck(u) ==
    /\ ingest[u].pc = "create_check"
    /\ ingest' = Goto(u, IF has_table(db) THEN "reflect" ELSE "create")
    /\ UNCHANGED <<db, reply, deleted, running, pipeline>>

\* create_all: CREATE TABLE uploaded_data; an error when it is there by now.
Create(u) ==
    /\ ingest[u].pc = "create"
    /\ IF has_table(db)
       THEN db' = db /\ ingest' = Raise(u)
       ELSE /\ db' = CreateTable(db, ParsedIngest(ingest[u].csv).columns)
            /\ ingest' = Goto(u, "reflect")
    /\ UNCHANGED <<reply, deleted, running, pipeline>>

\* Table(TABLE_NAME, metadata, autoload_with=engine): NoSuchTableError
\* when the table is gone.
Reflect(u) ==
    /\ ingest[u].pc = "reflect"
    /\ ingest' = IF has_table(db) THEN Goto(u, "insert") ELSE Raise(u)
    /\ UNCHANGED <<db, reply, deleted, running, pipeline>>

\* Mutant: the rows are inserted one statement at a time, each committed;
\* the step stores the first row only.
ExecuteInsert_row_by_row(d, records) ==
    IF ~has_table(d) THEN [raised |-> TRUE, db |-> d]
    ELSE [raised |-> FALSE,
          db |-> BulkInsert(d, IF records = <<>> THEN records
                               ELSE <<records[1]>>)]

\* with engine.begin() as conn: conn.execute(table.insert(), records):
\* one transaction; an error when the table is gone.
ExecuteInsert(d, records) ==
    IF ~has_table(d) THEN [raised |-> TRUE, db |-> d]
    ELSE [raised |-> FALSE, db |-> BulkInsert(d, records)]

\* The bulk insert and, when it returns, upload_csv's answer 200.
Insert(u) ==
    /\ ingest[u].pc = "insert"
    /\ LET x == ExecuteInsert(db, to_dict_records(ParsedIngest(ingest[u].csv)))
       IN /\ db' = x.db
          /\ ingest' = IF x.raised THEN Raise(u)
                        ELSE [ingest EXCEPT ![u].pc = "done", ![u].status = 200]
    /\ UNCHANGED <<reply, deleted, running, pipeline>>

NextIngest ==
    \/ \E u \in Workers, k \in 0..MaxRows : IngestBegin(u, k)
    \/ \E u \in Workers : DropCheck(u)
    \/ \E u \in Workers : Drop(u)
    \/ \E u \in Workers : CreateCheck(u)
    \/ \E u \in Workers : Create(u)
    \/ \E u \in Workers : Reflect(u)
    \/ \E u \in Workers : Insert(u)

SpecIngest == Init /\ [][NextIngest]_vars

(* ---------------------------------------------------------------------- *)
(* pipeline.py                                                             *)
(* ---------------------------------------------------------------------- *)

\* for attempt in range(3)
ProbeAttempts == 3

\* main() is entered: nothing has run.  result is the value returned by
\* test_docker_container, "none" before it returns.
PipelineStart ==
    [pc |-> "tests", test_success |-> FALSE, build_success |-> FALSE,
     result |-> "none", attempt |-> 0, exit |-> 0, log |-> <<>>]

\* subprocess.run of one command; ok is whether it exits with status 0
Ran(p, cmd, ok) == [p EXCEPT !.log = Append(@, [cmd |-> cmd, ok |-> ok])]

\* run_command: True when the command succeeds, False on
\* CalledProcessError
run_command(ok) == ok

\* sys.exit(code), or the return of main() for code 0
Exit(p, code) == [p EXCEPT !.pc = "exited", !.exit = code]

\* Step 1: the unit tests; sys.exit(1) when they fail
RunTests(ok) ==
    /\ pipeline.pc = "tests"
    /\ LET p == [Ran(pipeline, "tests", ok) EXCEPT !.test_success = run_command(ok)]
       IN pipeline' = IF ~p.test_success THEN Exit(p, 1)
                      ELSE [p EXCEPT !.pc = "build"]
    /\ UNCHANGED <<db, reply, deleted, running, ingest>>

\* Step 2: docker build; sys.exit(1) when it fails
RunBuild(ok) ==
    /\ pipeline.pc = "build"
    /\ LET p == [Ran(pipeline, "build", ok) EXCEPT !.build_success = run_command(ok)]
       IN pipeline' = IF ~p.build_success THEN Exit(p, 1)
                      ELSE [p EXCEPT !.pc = "pre_stop"]
    /\ UNCHANGED <<db, reply, deleted, running, ingest>>

\* test_docker_container: docker stop of a container left over; the exit
\* status is not checked (on Windows and elsewhere alike)
PreStop(ok) ==
    /\ pipeline.pc = "pre_stop"
    /\ pipeline' = [Ran(pipeline, "stop", ok) EXCEPT !.pc = "pre_rm"]
    /\ UNCHANGED <<db, reply, deleted, running, ingest>>

\* docker rm of a container left over; the exit status is not checked
PreRm(ok) ==
    /\ pipeline.pc = "pre_rm"
    /\ pipeline' = [Ran(pipeline, "rm", ok) EXCEPT !.pc = "run"]
    /\ UNCHANGED <<db, reply, deleted, running, ingest>>

\* docker run -d with check=True: CalledProcessError goes to the outer
\* except, which returns False, and then to the finally block
DockerRun(ok) ==
    /\ pipeline.pc = "run"
    /\ pipeline' = IF ok
                   THEN [Ran(pipeline, "run", ok) EXCEPT !.pc = "probe", !.attempt = 0]
                   ELSE [Ran(pipeline, "run", ok) EXCEPT !.pc = "post_stop",
                                                         !.result = "false"]
    /\ UNCHANGED <<db, reply, deleted, running, ingest>>

\* Mutant: a successful attempt does not end the loop before the last one.
NextProbe_ignores_success(p, ok) ==
    IF p.attempt < 2 THEN [p EXCEPT !.attempt = @ + 1]
    ELSE IF ok THEN [p EXCEPT !.pc = "post_stop", !.result = "true"]
    ELSE [p EXCEPT !.pc = "logs"]

\* One pass of the loop body after curl: return True on success; on
\* CalledProcessError the next attempt when attempt < 2, else the logs
\* and return False.  When range(3) is used up without a return, the
\* function ends after the finally block without a result.
NextProbe(p, ok) ==
    IF ok THEN [p EXCEPT !.pc = "post_stop", !.result = "true"]
    ELSE IF p.attempt < 2
         THEN IF p.attempt + 1 < ProbeAttempts THEN [p EXCEPT !.attempt = @ + 1]
              ELSE [p EXCEPT !.pc = "post_stop"]
    ELSE [p EXCEPT !.pc = "logs"]

\* curl -f of /health, attempt pipeline.attempt of range(3)
Probe(ok) ==
    /\ pipeline.pc = "probe"
    /\ pipeline.attempt \in 0..(ProbeAttempts - 1)
    /\ pipeline' = NextProbe(Ran(pipeline, "curl", ok), ok)
    /\ UNCHANGED <<db, reply, deleted, running, ingest>>

\* docker logs after the last failed attempt (not checked), return False
Logs(ok) ==
    /\ pipeline.pc = "logs"
    /\ pipeline' = [Ran(pipeline, "logs", ok) EXCEPT !.pc = "post_stop",
                                                    !.result = "false"]
    /\ UNCHANGED <<db, reply, deleted, running, ingest>>

\* finally: docker stop; the exit status is not checked
PostStop(ok) ==
    /\ pipeline.pc = "post_stop"
    /\ pipeline' = [Ran(pipeline, "stop", ok) EXCEPT !.pc = "post_rm"]
    /\ UNCHANGED <<db, reply, deleted, running, ingest>>

\* finally: docker rm; then test_docker_container returns to main()
PostRm(ok) ==
    /\ pipeline.pc = "post_rm"
    /\ pipeline' = [Ran(pipeline, "rm", ok) EXCEPT !.pc = "summary"]
    /\ UNCHANGED <<db, reply, deleted, running, ingest>>

\* main() prints the outcome and the summary and returns: exit status 0
\* whatever the container test returned
Summary ==
    /\ pipeline.pc = "summary"
    /\ pipeline' = Exit(pipeline, 0)
    /\ UNCHANGED <<db, reply, deleted, running, ingest>>

InitPipeline ==
    /\ db = NoTable
    /\ reply = NoReply
    /\ deleted = {}
    /\ running = FALSE
    /\ ingest = [u \in Workers |-> NoIngest]
    /\ pipeline = PipelineStart

NextPipeline ==
    \/ \E ok \in BOOLEAN : RunTests(ok)
    \/ \E ok \in BOOLEAN : RunBuild(ok)
    \/ \E ok \in BOOLEAN : PreStop(ok)
    \/ \E ok \in BOOLEAN : PreRm(ok)
    \/ \E ok \in BOOLEAN : DockerRun(ok)
    \/ \E ok \in BOOLEAN : Probe(ok)
    \/ \E ok \in BOOLEAN : Logs(ok)
    \/ \E ok \in BOOLEAN : PostStop(ok)
    \/ \E ok \in BOOLEAN : PostRm(ok)
    \/ Summary

SpecPipeline == InitPipeline /\ [][NextPipeline]_vars

(* ---------------------------------------------------------------------- *)
(* What a file says, read off the file itself                              *)
(* ---------------------------------------------------------------------- *)

\* The column names of a file, trimmed.
SourceColumns(csv) == [c \in DOMAIN csv.header |-> csv.header[c].core]

HasNoMissingField(row) == \A c \in DOMAIN row : row[c] # <<>>

\* The data rows of a file that have a value in every column, in order.
CompleteSourceRows(csv) == SelectSeq(csv.rows, HasNoMissingField)

\* A data row as a mapping from column name to the field's text.
SourceRecord(csv, row) ==
    [name \in Range(SourceColumns(csv)) |->
        row[CHOOSE c \in DOMAIN csv.header : csv.header[c].core = name]]

\* The texts that denote the same value as t: t itself and, for a run of
\* digits, the number written as an integer and as a decimal.
Renderings(t) ==
    {t} \cup (IF IsIntText(t)
              THEN {IntToStr(ParseInt(t)), IntToStr(ParseInt(t)) \o <<".", "0">>}
              ELSE {})

\* The stored record vals is the source record src up to the rendering of
\* numbers.
SameRecord(vals, src) ==
    /\ DOMAIN vals = DOMAIN src
    /\ \A c \in DOMAIN src : vals[c] \in Renderings(src[c])

\* No stored field is NULL.
NoNullField(d) == \A i \in Ids(d) : \A c \in DOMAIN d.rows[i] : d.rows[i][c] # NULL

UploadSucceeded(r) == r.op = "upload" /\ r.status = 200

(* ---------------------------------------------------------------------- *)
(* Claims                                                                  *)
(* ---------------------------------------------------------------------- *)

\* The table d holds the complete rows of csv, each as often as the file
\* has it, under the columns of csv, and nothing else.
TableHoldsExactly(d, csv) ==
    LET src == CompleteSourceRows(csv)
        recs == {SourceRecord(csv, src[k]) : k \in DOMAIN src}
    IN /\ has_table(d)
       /\ d.columns = SourceColumns(csv)
       /\ Cardinality(Ids(d)) = Len(src)
       /\ \A v \in recs \cup Range(d.rows) :
             Cardinality({i \in Ids(d) : d.rows[i] = v})
                = Cardinality({k \in DOMAIN src : SourceRecord(csv, src[k]) = v})

\* C1: replace semantics.  When the table holds records of an earlier
\* upload A, with a text in every field (whatever was listed, read,
\* updated or deleted since), and an upload of B succeeds, the table then
\* contains exactly the complete rows of B under B's columns, and no
\* record or column that came only from A.
C1_ReplaceSemantics ==
    [][(has_table(db) /\ Ids(db) # {} /\ NoNullField(db)
           /\ UploadSucceeded(reply'))
          => TableHoldsExactly(db', reply'.csv)]_vars

\* C2: after every successful upload, also one that follows earlier
\* uploads, updates and deletes, the N stored records have exactly the
\* identities 1..N, the sequence stands at N, and the i-th complete row of
\* the file, in file order, is the record with identity i.
C2_IdentitiesSequential ==
    UploadSucceeded(reply) =>
        LET n == Cardinality(Ids(db))
            src == CompleteSourceRows(reply.csv)
        IN /\ Ids(db) = 1..n
           /\ db.seq = n
           /\ \A k \in DOMAIN src :
                 /\ k \in Ids(db)
                 /\ SameRecord(db.rows[k], SourceRecord(reply.csv, src[k]))

\* Witness of C2: a successful upload stored two different rows, so the
\* order of the identities can be told.
C2_Witness ==
    /\ UploadSucceeded(reply)
    /\ Len(CompleteSourceRows(reply.csv)) = 2
    /\ Ids(db) = {1, 2}
    /\ db.rows[1] # db.rows[2]

\* C3: round trip.  After the upload of a file with at least one complete
\* data row, list() returns for every complete row, in identities 1..N,
\* every field's text exactly as it is in the file.
C3_RoundTrip ==
    (UploadSucceeded(reply) /\ Len(CompleteSourceRows(reply.csv)) >= 1) =>
        LET src == CompleteSourceRows(reply.csv)
        IN fetch_records(db, NoColumn, None, FALSE)
              = {[id |-> k, vals |-> SourceRecord(reply.csv, src[k])] :
                    k \in DOMAIN src}

\* C4: missing-value filter.  Right after a successful upload the number
\* of stored records is the number of input rows without a missing field
\* (also when that is 0), every such row is stored, and every stored
\* record is such a row.
C4_MissingValueFilter ==
    UploadSucceeded(reply) =>
        LET src == CompleteSourceRows(reply.csv)
        IN /\ Cardinality(Ids(db)) = Len(src)
           /\ \A k \in DOMAIN src : \E i \in Ids(db) :
                 SameRecord(db.rows[i], SourceRecord(reply.csv, src[k]))
           /\ \A i \in Ids(db) : \E k \in DOMAIN src :
                 SameRecord(db.rows[i], SourceRecord(reply.csv, src[k]))

\* C5: get(id) returns "not found" for every id that was never assigned
\* in the current table, and for every id whose delete has succeeded since
\* the table was last rebuilt.
C5_GetNotFound ==
    reply.op = "get" =>
        ((~has_table(db) \/ reply.id \notin 1..db.seq \/ reply.id \in deleted)
            => (reply.ret = NoRecord /\ reply.status = 404))

\* Witness of C5: a get of a deleted id, answered while the table still
\* holds another record.
C5_Witness ==
    /\ reply.op = "get"
    /\ reply.id \in deleted
    /\ ~reply.fail
    /\ has_table(db)
    /\ Ids(db) # {}

\* The record id of d differs from the one of e only in the columns named
\* in updates, which hold the new values.
UpdatedRecord(d, e, id, updates) ==
    /\ id \in Ids(d) /\ id \in Ids(e)
    /\ \A c \in Range(d.columns) :
          e.rows[id][c] = IF c \in DOMAIN updates THEN updates[c]
                          ELSE d.rows[id][c]

\* Nothing but the record id differs between d and e.
SameButRecord(d, e, id) ==
    /\ e.exists = d.exists
    /\ e.columns = d.columns
    /\ e.seq = d.seq
    /\ Ids(e) = Ids(d)
    /\ \A i \in Ids(d) \ {id} : e.rows[i] = d.rows[i]

\* C6: frame of update.  An update that returns true changes only the
\* columns named in fields, only in the record with identity id; the other
\* fields of that record, the other records, the identities and the set of
\* records stay.  An update that returns false leaves the table as it was.
C6_UpdateFrame ==
    [][/\ reply'.op = "update_record" =>
            IF reply'.ret
            THEN /\ SameButRecord(db, db', reply'.id)
                 /\ UpdatedRecord(db, db', reply'.id, reply'.updates)
            ELSE db' = db
       /\ reply'.op = "put" =>
            IF reply'.status = 200
            THEN /\ SameButRecord(db, db', reply'.id)
                 /\ UpdatedRecord(db, db', reply'.id, reply'.updates)
            ELSE db' = db]_vars

\* Witness of C6: an update of one column succeeded in a table of two
\* columns and two records.
C6_Witness ==
    /\ reply.op = "update_record"
    /\ reply.ret
    /\ DOMAIN reply.updates = {"name"}
    /\ Len(db.columns) = 2
    /\ Cardinality(Ids(db)) = 2
    /\ \E i \in Ids(db) : db.rows[i]["name"] # <<"b">>

\* A list request names a filter when it gives a column and a value.
HasFilter(r) == r.column # NoColumn /\ r.value # None

\* C7: list with a (column, value) filter returns exactly the records
\* whose text in that column equals the value, for every column and every
\* value, the empty value included; nothing when the column or the table
\* does not exist; list without a filter returns all records.  Stated for
\* tables whose records have a text in every field.
C7_FilterExact ==
    (reply.op = "list" /\ ~reply.fail /\ NoNullField(db)) =>
        reply.records =
            IF ~has_table(db) THEN {}
            ELSE IF ~HasFilter(reply) THEN {RowDict(db, i) : i \in Ids(db)}
            ELSE IF reply.column \notin Range(db.columns) THEN {}
            ELSE {RowDict(db, i) :
                     i \in {j \in Ids(db) : db.rows[j][reply.column] = reply.value}}

SoftOps == {"list", "get", "update_record", "delete_record"}

SoftResult(r) ==
    /\ r.op = "list" => r.records = {}
    /\ r.op = "get" => r.ret = NoRecord
    /\ r.op \in {"update_record", "delete_record"} => r.ret = FALSE

\* C8: fail-soft.  While the table does not exist, and when the storage
\* call fails, list returns the empty sequence, get none, update and
\* delete false; the table is not created and nothing changes.
C8_FailSoft ==
    [][(reply'.op \in SoftOps /\ (~has_table(db) \/ reply'.fail))
          => (SoftResult(reply') /\ db' = db /\ deleted' = deleted)]_vars

\* Witness of C8: an update failed softly on a failing storage call while
\* the record it names exists.
C8_Witness ==
    /\ reply.op = "update_record"
    /\ reply.fail
    /\ reply.ret = FALSE
    /\ reply.id \in Ids(db)
    /\ DOMAIN reply.updates = {"name"}

\* The update names at least one column and only columns of the table.
NamesColumns(d, updates) ==
    DOMAIN updates # {} /\ DOMAIN updates \subseteq Range(d.columns)

\* C9: update returns true exactly when one record had the identity and
\* was modified, delete returns true exactly when the record existed and
\* was removed; both return false when the table is missing or no record
\* has the id; a delete that returns true takes exactly one record away.
C9_ReturnValues ==
    [][/\ reply'.op = "update_record" =>
            /\ reply'.ret =>
                  /\ Cardinality({i \in Ids(db) : i = reply'.id}) = 1
                  /\ UpdatedRecord(db, db', reply'.id, reply'.updates)
            /\ ~reply'.ret => db' = db
            /\ (~has_table(db) \/ reply'.id \notin Ids(db)) => ~reply'.ret
            /\ (reply'.id \in Ids(db) /\ ~reply'.fail
                   /\ NamesColumns(db, reply'.updates)) => reply'.ret
       /\ reply'.op = "delete_record" =>
            /\ reply'.ret <=> (reply'.id \in Ids(db) /\ reply'.id \notin Ids(db'))
            /\ reply'.ret =>
                  /\ Cardinality(Ids(db')) = Cardinality(Ids(db)) - 1
                  /\ Ids(db') = Ids(db) \ {reply'.id}
            /\ ~reply'.ret => db' = db
            /\ (~has_table(db) \/ reply'.id \notin Ids(db)) => ~reply'.ret
            /\ (reply'.id \in Ids(db) /\ ~reply'.fail) => reply'.ret]_vars

\* Witness of C9: a delete returned true and left another record.
C9_Witness ==
    /\ reply.op = "delete_record"
    /\ reply.ret
    /\ reply.id \notin Ids(db)
    /\ Ids(db) # {}

\* C10: PUT /records/{id} answers 400 on an empty body, before it looks
\* for the record; otherwise 404 when no record has the id or the table is
\* missing; 200 when the update modified the record; 500 only when the
\* record exists and the update call failed.  After 400, 404 and 500 the
\* table is as before.
C10_PutStatus ==
    [][reply'.op = "put" =>
          LET empty == DOMAIN reply'.updates = {}
              absent == ~has_table(db) \/ reply'.id \notin Ids(db)
          IN /\ reply'.status \in {200, 400, 404, 500}
             /\ empty <=> reply'.status = 400
             /\ (~empty /\ absent) => reply'.status = 404
             /\ reply'.status = 200 =>
                   (~absent /\ UpdatedRecord(db, db', reply'.id, reply'.updates))
             /\ reply'.status = 500 =>
                   (~absent /\ (reply'.fail = "write"
                                  \/ ~NamesColumns(db, reply'.updates)))
             /\ (~empty /\ ~absent /\ reply'.fail = "none"
                    /\ NamesColumns(db, reply'.updates)) => reply'.status = 200
             /\ reply'.status # 200 => db' = db]_vars

\* Witness of C10: 500 for an existing record, because a field names a
\* column the table does not have.
C10_Witness ==
    /\ reply.op = "put"
    /\ reply.status = 500
    /\ reply.fail = "none"
    /\ "zip" \in DOMAIN reply.updates
    /\ reply.id \in Ids(db)

\* Nothing but the absence of record id differs between d and e.
RemovedRecord(d, e, id) ==
    /\ e.exists = d.exists
    /\ e.columns = d.columns
    /\ e.seq = d.seq
    /\ id \in Ids(d)
    /\ Ids(e) = Ids(d) \ {id}
    /\ \A i \in Ids(e) : e.rows[i] = d.rows[i]

\* C11: DELETE /records/{id} answers 404 and changes nothing when no
\* record has the id or the table is missing; 200 when the record exists
\* (and no storage call fails), and then exactly that record is gone and
\* every other record is as before; a DELETE of an id after a 200 for it
\* answers 404.
C11_DeleteStatus ==
    [][reply'.op = "delete" =>
          LET absent == ~has_table(db) \/ reply'.id \notin Ids(db)
          IN /\ reply'.status \in {200, 404, 500}
             /\ absent => reply'.status = 404
             /\ (~absent /\ reply'.fail = "none") => reply'.status = 200
             /\ reply'.status = 200 => RemovedRecord(db, db', reply'.id)
             /\ reply'.status # 200 => db' = db
             /\ reply'.id \in deleted => reply'.status = 404]_vars

\* Witness of C11: the second DELETE of an id, answered 404 while the
\* table still holds another record.
C11_Witness ==
    /\ reply.op = "delete"
    /\ reply.status = 404
    /\ reply.fail = "none"
    /\ reply.id \in deleted
    /\ Ids(db) # {}

\* The content is rejected by the normalizer: bytes that are not UTF-8,
\* no header line, or a line with too many fields.
Malformed(csv) ==
    ~csv.decodable \/ csv.header = <<>> \/ TooManyFields(csv)

\* C12: POST /upload answers 200 exactly when the content is well formed
\* and no step of the store failed, 500 otherwise; on 200 the count in the
\* response is the number of records list() returns right afterwards.
C12_UploadStatus ==
    reply.op = "upload" =>
        /\ reply.status \in {200, 500}
        /\ reply.status = 200 <=> (~Malformed(reply.csv) /\ reply.failAt = "none")
        /\ reply.status = 200 =>
              reply.count = Cardinality(fetch_records(db, NoColumn, None, FALSE))

\* The complete rows of csv are all stored in d, the k-th as record k.
HoldsAllRows(d, csv) ==
    LET src == CompleteSourceRows(csv)
    IN /\ has_table(d)
       /\ \A k \in DOMAIN src :
             /\ k \in Ids(d)
             /\ SameRecord(d.rows[k], SourceRecord(csv, src[k]))

\* C13: ingest is all-or-nothing.  When an upload of N rows has finished,
\* the table holds all N rows when it succeeded; when it failed at a step
\* of the table creation or at the bulk insert, the upload has stored no
\* row (the table is missing, empty, or untouched); a failing step is
\* answered 500, never 200; and the process keeps running.
C13_AllOrNothing ==
    [][(reply'.op = "upload" /\ ~Malformed(reply'.csv)) =>
          /\ reply'.failAt # "none" <=> reply'.status = 500
          /\ reply'.failAt = "none" <=> reply'.status = 200
          /\ reply'.status = 200 => HoldsAllRows(db', reply'.csv)
          /\ reply'.status = 500 =>
                (~has_table(db') \/ Ids(db') = {} \/ db' = db)
          /\ reply'.failAt \in {"create", "insert"} => Ids(db') = {}
          /\ running']_vars

\* Witness of C13: an upload of two complete rows failed at the bulk
\* insert and left an empty table.
C13_Witness ==
    /\ reply.op = "upload"
    /\ reply.failAt = "insert"
    /\ reply.status = 500
    /\ Len(CompleteSourceRows(reply.csv)) = 2
    /\ has_table(db)
    /\ Ids(db) = {}

\* C15: an upload whose content the normalizer rejects leaves the table
\* as it was: not dropped, not created, every record with its identity and
\* fields; and it is answered 500.
C15_NormalizerFailureFrame ==
    [][(reply'.op = "upload" /\ Malformed(reply'.csv)) =>
          /\ db' = db
          /\ deleted' = deleted
          /\ reply'.status = 500
          /\ fetch_records(db', NoColumn, None, FALSE)
                = fetch_records(db, NoColumn, None, FALSE)
          /\ \A i \in RecordIds :
                get_record_by_id(db', i, FALSE) = get_record_by_id(db, i, FALSE)]_vars

\* Witness of C15: content that cannot be parsed was rejected while the
\* table held two records.
C15_Witness ==
    /\ reply.op = "upload"
    /\ reply.csv = Ragged
    /\ reply.status = 500
    /\ Cardinality(Ids(db)) = 2

\* C14: a fresh process has no table.  A startup that does not fail
\* leaves no table, whether or not the last process left one with records,
\* and a missing table is no error; a failing connection check (or drop)
\* makes the startup raise, and the process does not serve.  While the
\* table does not exist, list returns nothing and get returns not found,
\* and only a parsed upload that gets as far as creating the table brings
\* it into existence.
C14_FreshProcessNoTable ==
    [][/\ reply'.op = "startup" =>
            /\ reply'.raised <=> reply'.fail # "none"
            /\ ~reply'.raised => (running' /\ db' = NoTable)
            /\ reply'.raised => (~running' /\ db' = db)
       /\ (~has_table(db) /\ has_table(db')) =>
            /\ reply'.op = "upload"
            /\ ~Malformed(reply'.csv)
            /\ reply'.failAt \in {"none", "insert"}
       /\ (~has_table(db) /\ reply'.op = "list") => reply'.records = {}
       /\ (~has_table(db) /\ reply'.op = "get") =>
            (reply'.ret = NoRecord /\ reply'.status = 404)]_vars

\* Witness of C14: a process has started and dropped the table of the last
\* process, in which records had been stored and one deleted.
C14_Witness ==
    /\ reply.op = "startup"
    /\ ~reply.raised
    /\ running
    /\ deleted # {}
    /\ ~has_table(db)

\* The records of d that hold the text of worker u
RowsOfWorker(d, u) ==
    IF ~has_table(d) THEN {}
    ELSE {i \in Ids(d) : d.rows[i]["name"] = WorkerText(u)}

\* The number of rows worker u uploads
RowsUploaded(u) == Len(CompleteSourceRows(ingest[u].csv))

BothDone == \A u \in Workers : ingest[u].pc = "done"

\* C17: no mutual exclusion between ingests.  At every point of every
\* interleaving the table holds all rows of an upload or none of them (the
\* bulk insert is one transaction); and when the two uploads do not
\* overlap, both succeed and the table ends with all rows of the later one
\* and no row of the earlier one.  That overlapping uploads can both
\* succeed and leave rows of both is the witness.
C17_NoMutualExclusion ==
    /\ \A u \in Workers :
          Cardinality(RowsOfWorker(db, u)) \in {0, RowsUploaded(u)}
    /\ \A u \in Workers :
          (BothDone /\ ingest[u].alone /\ ingest[u].later) =>
              /\ ingest[u].status = 200
              /\ ingest[Other(u)].status = 200
              /\ Cardinality(RowsOfWorker(db, u)) = RowsUploaded(u)
              /\ RowsOfWorker(db, Other(u)) = {}

\* Witness of C17: two overlapping uploads, both answered 200, and the
\* table holds the two rows of A and the two rows of B.
C17_Witness ==
    /\ BothDone
    /\ \A u \in Workers :
          /\ ingest[u].status = 200
          /\ ~ingest[u].alone
          /\ RowsUploaded(u) = 2
          /\ Cardinality(RowsOfWorker(db, u)) = 2

\* Where in the log of the pipeline a command was run
Pos(cmd) == {i \in DOMAIN pipeline.log : pipeline.log[i].cmd = cmd}

ContainerCommands == {"stop", "rm", "run", "curl", "logs"}

ContainerPos == UNION {Pos(c) : c \in ContainerCommands}

Passed(cmd) == \E i \in Pos(cmd) : pipeline.log[i].ok

Exited == pipeline.pc = "exited"

\* C16: the pipeline runs the unit tests, then the Docker build, then the
\* container test, each once and in that order; the build only after the
\* tests passed, the container test only after the build succeeded; it
\* exits with 1 exactly when the tests or the build failed, and with 0
\* when only the container test failed.  The health probe is made at most
\* 3 times, never again after a success, and 3 times when it keeps
\* failing; docker stop and docker rm run after the last command of the
\* container test, whether the probe succeeded, failed, or the container
\* did not start.
C16_PipelineOrder ==
    /\ Cardinality(Pos("tests")) <= 1 /\ Cardinality(Pos("build")) <= 1
    /\ \A i \in Pos("build") : \A j \in Pos("tests") : j < i
    /\ \A i \in ContainerPos : \A j \in Pos("build") : j < i
    /\ Pos("build") # {} => Passed("tests")
    /\ ContainerPos # {} => (Passed("tests") /\ Passed("build"))
    /\ Exited =>
          /\ pipeline.exit \in {0, 1}
          /\ pipeline.exit = 1 <=> (~Passed("tests") \/ ~Passed("build"))
          /\ (pipeline.exit = 1 /\ Passed("tests")) => Pos("build") # {}
          /\ pipeline.exit = 1 => ContainerPos = {}
          /\ pipeline.result = "false" => pipeline.exit = 0
    /\ Cardinality(Pos("curl")) <= ProbeAttempts
    /\ \A i \in Pos("curl") : pipeline.log[i].ok => \A j \in Pos("curl") : j <= i
    /\ Pos("curl") # {} => Passed("run")
    /\ (Exited /\ Passed("run") /\ ~Passed("curl")) =>
          Cardinality(Pos("curl")) = ProbeAttempts
    /\ (Exited /\ Pos("run") # {}) =>
          /\ pipeline.result \in {"true", "false"}
          /\ pipeline.result = "true" <=> Passed("curl")
          /\ \E s \in Pos("stop"), r \in Pos("rm") :
                /\ s < r
                /\ \A i \in Pos("run") \cup Pos("curl") \cup Pos("logs") : i < s

\* Witness of C16: the container started, the probe failed three times,
\* the cleanup ran and the pipeline exited with 0.
C16_Witness ==
    /\ Exited
    /\ pipeline.exit = 0
    /\ Passed("run")
    /\ Cardinality(Pos("curl")) = 3
    /\ ~Passed("curl")
    /\ pipeline.result = "false"

====
